---- MODULE Spec2Model ----
(***************************************************************************)
(* Model of the panic-safe asynchronous executor (async/async.go):         *)
(* Execute, ExecuteWithContext and recoverPanic, together with the         *)
(* goroutine or pool worker that runs the scheduled task.  Every           *)
(* invocation keeps the sequence of its observable operations (log         *)
(* writes, sink operations, context pool operations) in trace[i].          *)
(* A second part models the HTTP error handler of the framework (bean.go): *)
(* UseErrorHandlerFuncs, ServeAt and DefaultHTTPErrorHandler.  A third     *)
(* part models two helpers: ExtractUserInfoFromJWT and JitterBackoff.      *)
(***************************************************************************)
EXTENDS Integers, Sequences, FiniteSets, TLC

\* Number of invocations of Execute / ExecuteWithContext that are modelled.
NumInv == 2

\* Number of changes of the configuration after the start that are modelled.
MaxReconfig == 1

Invs == 1..NumInv

\* Number of error handler functions registered before ServeAt that are
\* modelled.
MaxHandlers == 2

\* Significant bits of a float in the model (float64 keeps 53): an integer
\* below 2^MantBits converts exactly, a larger one is rounded.
MantBits == 3

\* Largest duration and largest attempt passed to JitterBackoff.
MaxDur == 15
MaxAttempt == 3

\* nil: no panic in flight, no poolName argument, no echo context.
None == "none"
NoPool == ""
NoCtx == 0

\* echo's context pool is a sync.Pool: it never runs dry, so one object per
\* invocation is enough to model it.
Ctxs == 1..NumInv

VARIABLES
    SentryOn,            \* bean.BeanConfig.Sentry.On
    beanSentryOn,        \* bean.SentryOn, set by NewEcho
    reconfigs,           \* changes of the configuration since the start
    tracesSampleRate,    \* viper "sentry.tracesSampleRate", in tenths
    skipTracesEndpoints, \* viper "sentry.skipTracesEndpoints"
    ctxFree,             \* context objects resting in echo's pool
    ctxStore,            \* whether context c holds a hub under "sentry"
    atCall,              \* the flag and the rate as they were at the call
    entry,               \* entry point called by invocation i
    poolArg,             \* its poolName argument (NoPool if absent)
    callerSt,            \* position of the calling thread of invocation i
    mode,                \* how Execute dispatched the task
    ec,                  \* detached context acquired by ExecuteWithContext
    path,                \* c.Request().URL.Path
    rpc,                 \* position of the thread that runs the task
    defers,              \* deferred calls of that thread, innermost last
    panicking,           \* panic value in flight in that thread
    taskRuns,            \* times the function handed to Execute was started
    runs,                \* times the unit of work fn was invoked
    wOutcome,            \* how fn ended: "none", "returned", "panicked"
    trace,               \* observable operations of invocation i, in order
    errorHandlerFuncs,   \* b.errorHandlerFuncs
    registered,          \* the arguments of UseErrorHandlerFuncs, in call order
    serving,             \* ServeAt has installed b.Echo.HTTPErrorHandler
    lastReq,             \* the last call of the HTTP error handler: its inputs
    hlog,                \* and what it did, in order
    authHeader,          \* the Authorization header of the request at hand
    jwtErr,              \* what ExtractUserInfoFromJWT returned for it
    jbIn,                \* the arguments of the last call of JitterBackoff
    jbOut                \* and its result

cfgVars == <<SentryOn, beanSentryOn, reconfigs, tracesSampleRate,
             skipTracesEndpoints>>
callVars == <<entry, poolArg, callerSt, mode, ec, path, atCall>>
runVars == <<rpc, defers, panicking, taskRuns, runs, wOutcome>>
asyncVars == <<SentryOn, beanSentryOn, reconfigs, tracesSampleRate,
               skipTracesEndpoints, ctxFree, ctxStore, atCall, entry, poolArg,
               callerSt, mode, ec, path, rpc, defers, panicking, taskRuns,
               runs, wOutcome, trace>>
errVars == <<errorHandlerFuncs, registered, serving, lastReq, hlog>>
helperVars == <<authHeader, jwtErr, jbIn, jbOut>>
vars == <<asyncVars, errVars, helperVars>>

----------------------------------------------------------------------------
\* Collaborators

\* An observable operation: what, its argument, the context object it
\* touches (NoCtx if none) and the thread that performs it.
Ev(e, a, c, t) == [ev |-> e, arg |-> a, ctx |-> c, th |-> t]

PoolNames == {"pool", "ghost_pool", "nil_pool"}

\* gopool.GetPool: "pool" is registered, "ghost_pool" was never registered
\* (lookup error), "nil_pool" resolves to a nil pool without an error.
GetPool(name) ==
    CASE name = "pool" -> [pool |-> TRUE, err |-> FALSE]
      [] name = "nil_pool" -> [pool |-> FALSE, err |-> FALSE]
      [] OTHER -> [pool |-> FALSE, err |-> TRUE]

\* helpers.FloatInRange(x, lo, hi): x clamped to [lo, hi].
FloatInRange(x, lo, hi) == IF x < lo THEN lo ELSE IF x > hi THEN hi ELSE x

\* Request paths and skip patterns.  A pattern is a regular expression:
\* regexp.MustCompile panics on "(", MatchString is an unanchored search.
Paths == {"/ping", "/users"}
Compiles(p) == p # "("
MatchString(p, s) ==
    CASE p = "/ping" -> s = "/ping"
      [] p = "^/ping$" -> s = "/ping"
      [] p = "/users" -> s = "/users"
      [] OTHER -> FALSE

\* The configurations the program is started with: that of env.json
\* (reporting off); reporting on with a sampling rate that clamps to 0;
\* reporting on with a rate that clamps to 1 and the skip list of env.json;
\* reporting on, sampling, with an invalid pattern between two valid ones.
Configs ==
    {[on |-> FALSE, rate |-> 2, skip |-> <<"/ping", "^/$">>],
     [on |-> TRUE, rate |-> -5, skip |-> <<>>],
     [on |-> TRUE, rate |-> 15, skip |-> <<"/ping", "^/$">>],
     [on |-> TRUE, rate |-> 2, skip |-> <<"^/ping$", "(", "/users">>]}

----------------------------------------------------------------------------
\* recoverPanic as it would be without the test of Sentry.On.
RecoverPanic_AlwaysReports(c, pv, th) ==
    IF pv = None
    THEN [evs |-> <<>>, pv |-> None]
    ELSE [evs |->
            <<Ev("HubClone", "recoverPanic", NoCtx, th)>>
            \o (IF c # NoCtx
                THEN <<Ev("ScopeSetRequest", "recoverPanic", c, th)>>
                ELSE <<>>)
            \o <<Ev("SetTag", "goroutine=true", NoCtx, th),
                 Ev("HubRecover", pv, NoCtx, th),
                 Ev("LogError", pv, NoCtx, th)>>,
          pv |-> None]

\* recoverPanic(c), run as a deferred call of thread th while pv is the
\* panic in flight (None: recover() returns nil and nothing happens).
RecoverPanic(c, pv, th) ==
    IF pv = None
    THEN [evs |-> <<>>, pv |-> None]
    ELSE [evs |->
            (IF SentryOn
             THEN <<Ev("HubClone", "recoverPanic", NoCtx, th)>>
                  \o (IF c # NoCtx
                      THEN <<Ev("ScopeSetRequest", "recoverPanic", c, th)>>
                      ELSE <<>>)
                  \o <<Ev("SetTag", "goroutine=true", NoCtx, th),
                       Ev("HubRecover", pv, NoCtx, th)>>
             ELSE <<>>)
            \o <<Ev("LogError", pv, NoCtx, th)>>,
          pv |-> None]

----------------------------------------------------------------------------
\* Execute, in the calling thread.  The calling thread runs an entry point
\* from its call to its return without waiting on anything, so a call is one
\* step: it leaves the calling thread "returned", or "faulted" if a panic
\* leaves the entry point.

\* The error pool.Submit returns when it rejects the task.
SubmitErr == "ErrPoolOverload"

\* asyncFunc as first assigned: a new goroutine runs the task.
GoAsyncFunc ==
    [evs |-> <<Ev("go", "", NoCtx, "caller")>>, pv |-> None,
     mode |-> "goroutine"]

\* PooledAsyncFunc as it would be without "defer recoverPanic(nil)".
PooledAsyncFunc_NoDefer(poolName, ok) ==
    [evs |-> <<Ev("Submit", poolName, NoCtx, "caller")>>,
     pv |-> IF ok THEN None ELSE SubmitErr,
     mode |-> IF ok THEN "pooled" ELSE "submitFailed"]

\* PooledAsyncFunc as it would be if a rejected task were logged and then
\* run on a new goroutine.
PooledAsyncFunc_FallsBack(poolName, ok) ==
    LET pv == IF ok THEN None ELSE SubmitErr
        r == RecoverPanic(NoCtx, pv, "caller")
    IN  [evs |-> <<Ev("Submit", poolName, NoCtx, "caller")>> \o r.evs,
         pv |-> r.pv,
         mode |-> IF ok THEN "pooled" ELSE "goroutine"]

\* PooledAsyncFunc as it would be if the error of Submit were ignored.
PooledAsyncFunc_IgnoresErr(poolName, ok) ==
    [evs |-> <<Ev("Submit", poolName, NoCtx, "caller")>>,
     pv |-> None,
     mode |-> IF ok THEN "pooled" ELSE "submitFailed"]

\* asyncFunc once the pool is found: defer recoverPanic(nil), Submit, and
\* panic(err) if Submit failed; the deferred call runs as the function ends.
PooledAsyncFunc(poolName, ok) ==
    LET pv == IF ok THEN None ELSE SubmitErr
        r == RecoverPanic(NoCtx, pv, "caller")
    IN  [evs |-> <<Ev("Submit", poolName, NoCtx, "caller")>> \o r.evs,
         pv |-> r.pv,
         mode |-> IF ok THEN "pooled" ELSE "submitFailed"]

\* ExecuteCode as it would be if a failed lookup only logged the warning
\* and returned.
ExecuteCode_DropOnMiss(poolName, ok) ==
    IF poolName # NoPool
    THEN LET l == GetPool(poolName)
         IN  IF ~l.err /\ l.pool
             THEN PooledAsyncFunc(poolName, ok)
             ELSE [evs |-> <<Ev("Warnf", poolName, NoCtx, "caller")>>,
                   pv |-> None, mode |-> "dropped"]
    ELSE GoAsyncFunc

\* Execute(task, poolName...): ok is the outcome of pool.Submit.
ExecuteCode(poolName, ok) ==
    IF poolName # NoPool
    THEN LET l == GetPool(poolName)
         IN  IF ~l.err /\ l.pool
             THEN PooledAsyncFunc(poolName, ok)
             ELSE [GoAsyncFunc EXCEPT
                     !.evs = <<Ev("Warnf", poolName, NoCtx, "caller")>> \o @]
    ELSE GoAsyncFunc

\* e.AcquireContext(): an object of the pool.  The objects are
\* interchangeable (each is Reset before use), so the lowest free one stands
\* for whichever the pool hands out.
AcquireContext == CHOOSE c \in ctxFree : \A d \in ctxFree : c <= d

\* Invocations are numbered in the order of their calls.
MayCall(i) ==
    /\ callerSt[i] = "idle"
    /\ i > 1 => callerSt[i - 1] # "idle"

Dispatch(i, e, c, p, pre, poolName, ok) ==
    LET x == ExecuteCode(poolName, ok)
    IN  /\ entry' = [entry EXCEPT ![i] = e]
        /\ poolArg' = [poolArg EXCEPT ![i] = poolName]
        /\ ec' = [ec EXCEPT ![i] = c]
        /\ path' = [path EXCEPT ![i] = p]
        /\ mode' = [mode EXCEPT ![i] = x.mode]
        /\ callerSt' = [callerSt EXCEPT
                          ![i] = IF x.pv = None THEN "returned" ELSE "faulted"]
        /\ rpc' = [rpc EXCEPT
                     ![i] = CASE x.mode = "goroutine" -> "spawned"
                              [] x.mode = "pooled" -> "queued"
                              [] OTHER -> "none"]
        /\ trace' = [trace EXCEPT ![i] = pre \o x.evs]
        /\ atCall' = [atCall EXCEPT
                        ![i] = [on |-> SentryOn, rate |-> tracesSampleRate]]
        /\ UNCHANGED <<helperVars, errVars, cfgVars, defers, panicking,
                       taskRuns, runs, wOutcome>>

Execute(i) ==
    /\ MayCall(i)
    /\ \E poolName \in PoolNames \cup {NoPool}, ok \in BOOLEAN :
          Dispatch(i, "Execute", NoCtx, "", <<>>, poolName, ok)
    /\ UNCHANGED <<ctxFree, ctxStore>>

\* ExecuteWithContext as it would be if the enrichment were done before the
\* call of Execute instead of inside the closure.
ExecuteWithContext_EnrichesAtCall(i) ==
    /\ MayCall(i)
    /\ \E p \in Paths, poolName \in PoolNames \cup {NoPool}, ok \in BOOLEAN :
          LET c == AcquireContext
          IN
          /\ ctxFree' = ctxFree \ {c}
          /\ ctxStore' = [ctxStore EXCEPT ![c] = SentryOn]
          /\ Dispatch(i, "ExecuteWithContext", c, p,
                      <<Ev("AcquireContext", "", c, "caller"),
                        Ev("Reset", "context.TODO", c, "caller")>>
                      \o (IF SentryOn
                          THEN <<Ev("HubClone", "ExecuteWithContext", NoCtx,
                                    "caller"),
                                 Ev("Set", "sentry", c, "caller")>>
                          ELSE <<>>),
                      poolName, ok)

\* ExecuteWithContext as it would be if it released the context when it
\* returns to the caller instead of when the closure ends.
ExecuteWithContext_ReleasesAtReturn(i) ==
    /\ MayCall(i)
    /\ \E p \in Paths, poolName \in PoolNames \cup {NoPool}, ok \in BOOLEAN :
          LET c == AcquireContext
          IN
          /\ ctxFree' = ctxFree
          /\ ctxStore' = [ctxStore EXCEPT ![c] = FALSE]
          /\ Dispatch(i, "ExecuteWithContext", c, p,
                      <<Ev("AcquireContext", "", c, "caller"),
                        Ev("Reset", "context.TODO", c, "caller")>>,
                      poolName, ok)

\* ExecuteWithContext(fn, c, poolName...): acquire and reset a context in
\* the calling thread (Reset empties its store), then Execute the closure.
ExecuteWithContext(i) ==
    /\ MayCall(i)
    /\ \E p \in Paths, poolName \in PoolNames \cup {NoPool}, ok \in BOOLEAN :
          LET c == AcquireContext
          IN
          /\ ctxFree' = ctxFree \ {c}
          /\ ctxStore' = [ctxStore EXCEPT ![c] = FALSE]
          /\ Dispatch(i, "ExecuteWithContext", c, p,
                      <<Ev("AcquireContext", "", c, "caller"),
                        Ev("Reset", "context.TODO", c, "caller")>>,
                      poolName, ok)

----------------------------------------------------------------------------
\* The scheduled task, in the goroutine or pool worker that runs it

\* SkipLoop as it would be without the break after the first match.
RECURSIVE SkipLoop_NoBreak(_, _, _)
SkipLoop_NoBreak(list, p, k) ==
    IF k > Len(list)
    THEN [evs |-> <<>>, pv |-> None]
    ELSE LET e == Ev("MustCompile", list[k], NoCtx, "runner")
         IN  IF ~Compiles(list[k])
             THEN [evs |-> <<e>>, pv |-> "regexp: Compile"]
             ELSE LET r == SkipLoop_NoBreak(list, p, k + 1)
                      m == IF MatchString(list[k], p)
                           THEN <<Ev("SampledFalse", list[k], NoCtx, "runner")>>
                           ELSE <<>>
                  IN  [evs |-> <<e>> \o m \o r.evs, pv |-> r.pv]

\* The loop over skipTracesEndpoints from index k on: MustCompile panics on
\* an invalid pattern, the first match marks the span and ends the loop.
RECURSIVE SkipLoop(_, _, _)
SkipLoop(list, p, k) ==
    IF k > Len(list)
    THEN [evs |-> <<>>, pv |-> None]
    ELSE LET e == Ev("MustCompile", list[k], NoCtx, "runner")
         IN  IF ~Compiles(list[k])
             THEN [evs |-> <<e>>, pv |-> "regexp: Compile"]
             ELSE IF MatchString(list[k], p)
             THEN [evs |-> <<e, Ev("SampledFalse", list[k], NoCtx, "runner")>>,
                   pv |-> None]
             ELSE LET r == SkipLoop(list, p, k + 1)
                  IN  [evs |-> <<e>> \o r.evs, pv |-> r.pv]

\* Enrich as it would be if the sampling rate were tested without clamping.
Enrich_NoClamp(c, p) ==
    IF ~SentryOn
    THEN [evs |-> <<>>, pv |-> None, span |-> FALSE]
    ELSE LET hub == <<Ev("GetHubFromContext", "nil", c, "runner"),
                      Ev("HubClone", "ExecuteWithContext", NoCtx, "runner"),
                      Ev("ScopeSetRequest", "ExecuteWithContext", c, "runner"),
                      Ev("SetHubOnContext", "", NoCtx, "runner"),
                      Ev("Set", "sentry", c, "runner")>>
         IN  IF tracesSampleRate # 0
             THEN LET l == SkipLoop(skipTracesEndpoints, p, 1)
                  IN  [evs |-> hub \o <<Ev("StartSpan", p, c, "runner")>>
                               \o l.evs
                               \o (IF l.pv = None
                                   THEN <<Ev("SetRequest", "span.Context", c,
                                             "runner")>>
                                   ELSE <<>>),
                       pv |-> l.pv,
                       span |-> l.pv = None]
             ELSE [evs |-> hub, pv |-> None, span |-> FALSE]

\* Enrich as it would be without "ec.Set(bean.SentryHubContextKey, hub)":
\* the hub is put on the request context only.
Enrich_NoBind(c, p) ==
    IF ~SentryOn
    THEN [evs |-> <<>>, pv |-> None, span |-> FALSE]
    ELSE LET hub == <<Ev("GetHubFromContext", "nil", c, "runner"),
                      Ev("HubClone", "ExecuteWithContext", NoCtx, "runner"),
                      Ev("ScopeSetRequest", "ExecuteWithContext", c, "runner"),
                      Ev("SetHubOnContext", "", NoCtx, "runner")>>
         IN  IF FloatInRange(tracesSampleRate, 0, 10) > 0
             THEN LET l == SkipLoop(skipTracesEndpoints, p, 1)
                  IN  [evs |-> hub \o <<Ev("StartSpan", p, c, "runner")>>
                               \o l.evs
                               \o (IF l.pv = None
                                   THEN <<Ev("SetRequest", "span.Context", c,
                                             "runner")>>
                                   ELSE <<>>),
                       pv |-> l.pv,
                       span |-> l.pv = None]
             ELSE [evs |-> hub, pv |-> None, span |-> FALSE]

\* The closure's enrichment of context c for request path p.  span: the
\* closure reached "defer span.Finish()".
Enrich(c, p) ==
    IF ~SentryOn
    THEN [evs |-> <<>>, pv |-> None, span |-> FALSE]
    ELSE LET hub == <<Ev("GetHubFromContext", "nil", c, "runner"),
                      Ev("HubClone", "ExecuteWithContext", NoCtx, "runner"),
                      Ev("ScopeSetRequest", "ExecuteWithContext", c, "runner"),
                      Ev("SetHubOnContext", "", NoCtx, "runner"),
                      Ev("Set", "sentry", c, "runner")>>
         IN  IF FloatInRange(tracesSampleRate, 0, 10) > 0
             THEN LET l == SkipLoop(skipTracesEndpoints, p, 1)
                  IN  [evs |-> hub \o <<Ev("StartSpan", p, c, "runner")>>
                               \o l.evs
                               \o (IF l.pv = None
                                   THEN <<Ev("SetRequest", "span.Context", c,
                                             "runner")>>
                                   ELSE <<>>),
                       pv |-> l.pv,
                       span |-> l.pv = None]
             ELSE [evs |-> hub, pv |-> None, span |-> FALSE]

\* ClosureDefers as it would be with the last two defer statements swapped.
ClosureDefers_ReleaseInnermost(span) ==
    (IF span THEN <<"span.Finish()">> ELSE <<>>)
    \o <<"recoverPanic(ec)", "ReleaseContext(ec)">>

\* The deferred calls the closure of ExecuteWithContext has registered when
\* it calls fn(ec), in the order of their defer statements.
ClosureDefers(span) ==
    (IF span THEN <<"span.Finish()">> ELSE <<>>)
    \o <<"ReleaseContext(ec)", "recoverPanic(ec)">>

\* GoDefers as it would be if the goroutine deferred nothing.
GoDefers_NoRecover(m) == <<>>

\* The deferred call of the goroutine Execute starts; a pool worker runs the
\* submitted task as it is.
GoDefers(m) == IF m = "goroutine" THEN <<"recoverPanic(nil)">> ELSE <<>>

\* Where a thread goes when its function ends with panic value pv.
After(stack, pv) ==
    IF stack # <<>> THEN "unwind" ELSE IF pv = None THEN "done" ELSE "escaped"

\* ec.Set(bean.SentryHubContextKey, hub) is among the operations evs.
BindsHub(evs) ==
    \E k \in DOMAIN evs : evs[k].ev = "Set" /\ evs[k].arg = "sentry"

\* The goroutine or the pool worker starts the task and runs it up to the
\* call of fn.
RunTask(i) ==
    /\ rpc[i] \in {"spawned", "queued"}
    /\ taskRuns' = [taskRuns EXCEPT ![i] = @ + 1]
    /\ IF entry[i] = "Execute"
       THEN /\ defers' = [defers EXCEPT ![i] = GoDefers(mode[i])]
            /\ trace' = [trace EXCEPT
                           ![i] = Append(@, Ev("fn", "", NoCtx, "runner"))]
            /\ runs' = [runs EXCEPT ![i] = @ + 1]
            /\ rpc' = [rpc EXCEPT ![i] = "w"]
            /\ UNCHANGED panicking
       ELSE LET e == Enrich(ec[i], path[i])
            IN  IF e.pv # None
                THEN /\ defers' = [defers EXCEPT ![i] = GoDefers(mode[i])]
                     /\ trace' = [trace EXCEPT ![i] = @ \o e.evs]
                     /\ panicking' = [panicking EXCEPT ![i] = e.pv]
                     /\ rpc' = [rpc EXCEPT
                                  ![i] = After(GoDefers(mode[i]), e.pv)]
                     /\ UNCHANGED runs
                ELSE /\ defers' = [defers EXCEPT
                                     ![i] = GoDefers(mode[i])
                                            \o ClosureDefers(e.span)]
                     /\ trace' = [trace EXCEPT
                                    ![i] = @ \o e.evs
                                           \o <<Ev("fn", "", ec[i], "runner")>>]
                     /\ runs' = [runs EXCEPT ![i] = @ + 1]
                     /\ rpc' = [rpc EXCEPT ![i] = "w"]
                     /\ UNCHANGED panicking
    /\ ctxStore' = IF entry[i] = "ExecuteWithContext"
                      /\ BindsHub(Enrich(ec[i], path[i]).evs)
                   THEN [ctxStore EXCEPT ![ec[i]] = TRUE]
                   ELSE ctxStore
    /\ UNCHANGED <<helperVars, errVars, cfgVars, ctxFree, callVars, wOutcome>>

\* fn returns.
WReturn(i) ==
    /\ rpc[i] = "w"
    /\ wOutcome' = [wOutcome EXCEPT ![i] = "returned"]
    /\ rpc' = [rpc EXCEPT ![i] = After(defers[i], None)]
    /\ UNCHANGED <<helperVars, errVars, cfgVars, ctxFree, ctxStore, callVars,
                   defers, panicking, taskRuns, runs, trace>>

\* fn panics with the value "boom".
WPanic(i) ==
    /\ rpc[i] = "w"
    /\ wOutcome' = [wOutcome EXCEPT ![i] = "panicked"]
    /\ panicking' = [panicking EXCEPT ![i] = "boom"]
    /\ rpc' = [rpc EXCEPT ![i] = After(defers[i], "boom")]
    /\ UNCHANGED <<helperVars, errVars, cfgVars, ctxFree, ctxStore, callVars,
                   defers, taskRuns, runs, trace>>

\* The innermost pending deferred call runs (last in, first out), whether
\* the function returns or panics.
RunDeferred(i) ==
    /\ rpc[i] = "unwind"
    /\ LET d == defers[i][Len(defers[i])]
           rest == SubSeq(defers[i], 1, Len(defers[i]) - 1)
           r == IF d = "recoverPanic(ec)"
                THEN RecoverPanic(ec[i], panicking[i], "runner")
                ELSE IF d = "recoverPanic(nil)"
                THEN RecoverPanic(NoCtx, panicking[i], "runner")
                ELSE IF d = "ReleaseContext(ec)"
                THEN [evs |-> <<Ev("ReleaseContext", "", ec[i], "runner")>>,
                      pv |-> panicking[i]]
                ELSE [evs |-> <<Ev("Finish", "span", NoCtx, "runner")>>,
                      pv |-> panicking[i]]
       IN  /\ defers' = [defers EXCEPT ![i] = rest]
           /\ panicking' = [panicking EXCEPT ![i] = r.pv]
           /\ trace' = [trace EXCEPT ![i] = @ \o r.evs]
           /\ ctxFree' = IF d = "ReleaseContext(ec)"
                         THEN ctxFree \cup {ec[i]}
                         ELSE ctxFree
           /\ rpc' = [rpc EXCEPT ![i] = After(rest, r.pv)]
    /\ UNCHANGED <<helperVars, errVars, cfgVars, ctxStore, callVars, taskRuns,
                   runs, wOutcome>>

\* bean.SentryCaptureException(c, err) where hub tells whether c holds a hub
\* under SentryHubContextKey (c = NoCtx: called with a nil context).
SentryCaptureException(c, hub) ==
    IF ~beanSentryOn THEN "off"
    ELSE IF c # NoCtx
    THEN (IF hub THEN "captured" ELSE "nothing")
    ELSE "captured"

\* fn, while it runs, reports an error with
\* bean.SentryCaptureException(ec, err); once is enough to observe it.
WCapture(i) ==
    /\ rpc[i] = "w"
    /\ entry[i] = "ExecuteWithContext"
    /\ \A k \in DOMAIN trace[i] : trace[i][k].ev # "SentryCaptureException"
    /\ trace' = [trace EXCEPT
                   ![i] = Append(@, Ev("SentryCaptureException",
                                       SentryCaptureException(ec[i],
                                                              ctxStore[ec[i]]),
                                       ec[i], "runner"))]
    /\ UNCHANGED <<helperVars, errVars, cfgVars, ctxFree, ctxStore, callVars,
                   rpc, defers, panicking, taskRuns, runs, wOutcome>>

\* The configuration is changed while the program runs: BeanConfig and viper
\* take new values; bean.SentryOn is only set by NewEcho and stays.
Reconfigure ==
    /\ reconfigs < MaxReconfig
    /\ \E cfg \in Configs :
          /\ <<cfg.on, cfg.rate, cfg.skip>>
                # <<SentryOn, tracesSampleRate, skipTracesEndpoints>>
          /\ SentryOn' = cfg.on
          /\ tracesSampleRate' = cfg.rate
          /\ skipTracesEndpoints' = cfg.skip
    /\ reconfigs' = reconfigs + 1
    /\ UNCHANGED <<helperVars, errVars, beanSentryOn, ctxFree, ctxStore,
                   callVars, runVars, trace>>

----------------------------------------------------------------------------
\* The HTTP error handler of the framework.

\* Error handler functions: two of the application, and the one of the
\* framework that ServeAt registers.
UserHandlers == {"h1", "h2"}
DefaultErrorHanderFunc == "berror.DefaultErrorHanderFunc"

\* The error echo hands to the error handler, and the error a handler
\* function may return (None: nil).
HTTPErr == "httpErr"
HandlerErrs == {"handlerErr"}

\* What a handler function returns: (handled, err).
Outcomes == [handled : BOOLEAN, err : HandlerErrs \cup {None}]

\* An operation of the error handler: a call of handler function fn with
\* error err, or a report of err.
HEv(e, fn, err) == [ev |-> e, fn |-> fn, err |-> err]

NoReq == [err |-> None, committed |-> FALSE, outs |-> <<>>]

\* sentryecho's middleware, which NewEcho installs when it sets SentryOn,
\* puts a hub in the context of every request it serves.
RequestHub == beanSentryOn

\* What the handler does with the error err a handler function returned.
Report(c, err) ==
    IF err = None
    THEN <<>>
    ELSE IF beanSentryOn
    THEN <<HEv("SentryCaptureException",
               SentryCaptureException(c, RequestHub), err)>>
    ELSE <<HEv("Logger.Error", "", err)>>

\* HandlerLoop as it would be without "if handled { break }".
RECURSIVE HandlerLoop_NoBreak(_, _, _, _)
HandlerLoop_NoBreak(err, c, outs, k) ==
    IF k > Len(errorHandlerFuncs)
    THEN <<>>
    ELSE <<HEv("handle", errorHandlerFuncs[k], err)>>
         \o Report(c, outs[k].err)
         \o HandlerLoop_NoBreak(err, c, outs, k + 1)

\* The loop over b.errorHandlerFuncs from index k on; outs[k] is what the
\* k-th function returns.  Every function is called with the error the
\* handler was called with: the err it returns is a variable of the loop
\* body.
RECURSIVE HandlerLoop(_, _, _, _)
HandlerLoop(err, c, outs, k) ==
    IF k > Len(errorHandlerFuncs)
    THEN <<>>
    ELSE <<HEv("handle", errorHandlerFuncs[k], err)>>
         \o Report(c, outs[k].err)
         \o (IF outs[k].handled
             THEN <<>>
             ELSE HandlerLoop(err, c, outs, k + 1))

\* The function b.DefaultHTTPErrorHandler() returns, called with (err, c).
DefaultHTTPErrorHandler(err, c, committed, outs) ==
    IF committed THEN <<>> ELSE HandlerLoop(err, c, outs, 1)

\* b.UseErrorHandlerFuncs(h), called by the application before it serves.
UseErrorHandlerFuncs(h) ==
    /\ ~serving
    /\ Len(registered) < MaxHandlers
    /\ errorHandlerFuncs' = Append(errorHandlerFuncs, h)
    /\ registered' = Append(registered, h)
    /\ UNCHANGED <<helperVars, asyncVars, serving, lastReq, hlog>>

\* b.ServeAt(host, port): registers the framework's handler function,
\* installs the error handler and serves.
ServeAt ==
    /\ ~serving
    /\ errorHandlerFuncs' = Append(errorHandlerFuncs, DefaultErrorHanderFunc)
    /\ serving' = TRUE
    /\ UNCHANGED <<helperVars, asyncVars, registered, lastReq, hlog>>

\* echo calls the error handler for a request that ended with an error.
HTTPError ==
    /\ serving
    /\ \E committed \in BOOLEAN,
          outs \in [1..Len(errorHandlerFuncs) -> Outcomes] :
          LET c == CHOOSE x \in Ctxs : TRUE
          IN  /\ lastReq' = [err |-> HTTPErr, committed |-> committed,
                             outs |-> outs]
              /\ hlog' = DefaultHTTPErrorHandler(HTTPErr, c, committed,
                                                  outs)
    /\ UNCHANGED <<helperVars, asyncVars, errorHandlerFuncs, registered,
                   serving>>

----------------------------------------------------------------------------
\* ExtractUserInfoFromJWT (helpers/jwt.go).  A header is the sequence of its
\* characters; a token counts as three characters, its segments: the JOSE
\* header, the payload and the signature.

Bearer == <<"B", "e", "a", "r", "e", "r">>

\* The kinds of segments.  "junk" is a segment that does not decode.
JoseSegs == {"hdr", "junk"}
PayloadSegs == {"ok", "expired", "notyet", "expired+notyet"}
SigSegs == {"sig", "badsig"}

\* The three-segment tokens.
Tokens == {<<h, p, g>> : h \in JoseSegs, p \in PayloadSegs, g \in SigSegs}

\* What precedes the token in an Authorization header.
Schemes ==
    { Bearer \o <<" ">>,
      Bearer,
      <<"b", "e", "a", "r", "e", "r", " ">>,
      <<"B", "a", "s", "i", "c", " ">> }

\* The Authorization headers of the requests: absent (the empty string), or
\* a scheme followed by a token.
Headers == {<<>>} \cup {sch \o t : sch \in Schemes, t \in Tokens \cup {<<>>}}

\* ExtractJWTFromHeader(c) for a request whose Authorization header is
\* authHdr: what follows "Bearer" and one more character, whatever it is.
ExtractJWTFromHeader(authHdr) ==
    LET l == Len(Bearer)
    IN  IF Len(authHdr) > l + 1 /\ SubSeq(authHdr, 1, l) = Bearer
        THEN SubSeq(authHdr, l + 2, Len(authHdr))
        ELSE <<>>

\* jwt.ParseWithClaims(tokenString, claims, keyFunc) of golang-jwt, with a
\* key function that never fails: the token is valid exactly when no
\* validation error is raised; errs is the set of the flags of the
\* *jwt.ValidationError it returns (empty: a nil error).
ParseWithClaims(tokenString) ==
    LET errs ==
          IF Len(tokenString) # 3 \/ tokenString[1] # "hdr"
          THEN {"ValidationErrorMalformed"}
          ELSE (IF tokenString[2] \in {"expired", "expired+notyet"}
                THEN {"ValidationErrorExpired"} ELSE {})
               \cup (IF tokenString[2] \in {"notyet", "expired+notyet"}
                     THEN {"ValidationErrorNotValidYet"} ELSE {})
               \cup (IF tokenString[3] # "sig"
                     THEN {"ValidationErrorSignatureInvalid"} ELSE {})
    IN  [valid |-> errs = {}, errs |-> errs]

\* ExtractUserInfoFromJWT(c, claims): the return on "err != nil" comes
\* first, so err is nil wherever the code goes on to look at its flags, and
\* the type assertion on it fails.
ExtractUserInfoFromJWT(authHdr) ==
    LET r == ParseWithClaims(ExtractJWTFromHeader(authHdr))
    IN  IF r.errs # {}
        THEN "invalid user token"
        ELSE LET ok == FALSE
             IN  IF r.valid
                 THEN None
                 ELSE IF ok
                 THEN IF "ValidationErrorMalformed" \in r.errs
                      THEN "invalid user token"
                      ELSE IF r.errs \cap {"ValidationErrorExpired",
                                           "ValidationErrorNotValidYet"} # {}
                      THEN "token is expired"
                      ELSE "invalid user token"
                 ELSE "invalid user token"

\* A request comes in with the Authorization header h.
ReceiveRequest ==
    /\ \E h \in Headers : authHeader' = h
    /\ jwtErr' = "pending"
    /\ UNCHANGED <<asyncVars, errVars, jbIn, jbOut>>

\* Its handler calls ExtractUserInfoFromJWT.
Authenticate ==
    /\ jwtErr = "pending"
    /\ jwtErr' = ExtractUserInfoFromJWT(authHeader)
    /\ UNCHANGED <<asyncVars, errVars, authHeader, jbIn, jbOut>>

----------------------------------------------------------------------------
\* JitterBackoff (helpers, capped exponential backoff with jitter).
\* Durations are integers (nanoseconds); the floats the code computes with
\* hold integers or halves of integers.

RECURSIVE Exp2(_)
Exp2(n) == IF n = 0 THEN 1 ELSE 2 * Exp2(n - 1)

\* Number of bits of the integer x > 0.
RECURSIVE BitLen(_)
BitLen(x) == IF x < 2 THEN 1 ELSE 1 + BitLen(x \div 2)

\* float64(x) for an integer x >= 0: x rounded to MantBits significant
\* bits, to the nearest, ties to the even one.
Float64(x) ==
    IF x < Exp2(MantBits)
    THEN x
    ELSE LET step == Exp2(BitLen(x) - MantBits)
             q == x \div step
             rem == x % step
         IN  IF 2 * rem < step \/ (2 * rem = step /\ q % 2 = 0)
             THEN q * step
             ELSE (q + 1) * step

MathMin(a, b) == IF a < b THEN a ELSE b

\* The centre of the jitter: ri := time.Duration(temp / 2), truncated.
Centre(min, max, attempt) ==
    LET base == Float64(min)
        capLevel == Float64(max)
        temp == MathMin(capLevel, base * Exp2(attempt))
    IN  temp \div 2

\* The values rnd.Int63n(ri) may return; it panics when ri <= 0.
Int63n(ri) == 0..(ri - 1)

\* randDuration(center) when the generator returns jitter.
randDuration(center, jitter) ==
    IF center <= 0
    THEN [kind |-> "panic", r |-> 0]
    ELSE [kind |-> "value", r |-> Float64(center + jitter)]

\* JitterBackoff(min, max, attempt) when the generator returns jitter.
JitterBackoff(min, max, attempt, jitter) ==
    LET result == randDuration(Centre(min, max, attempt), jitter)
    IN  IF result.kind = "value" /\ result.r < min
        THEN [kind |-> "value", r |-> min]
        ELSE result

\* The call of JitterBackoff that is modelled.
CallJitterBackoff ==
    /\ jbOut.kind = "none"
    /\ \E min \in 0..MaxDur, max \in 0..MaxDur, attempt \in 0..MaxAttempt :
          \E jitter \in Int63n(Centre(min, max, attempt)) \cup {0} :
              /\ jbIn' = [min |-> min, max |-> max, attempt |-> attempt,
                          jitter |-> jitter]
              /\ jbOut' = JitterBackoff(min, max, attempt, jitter)
    /\ UNCHANGED <<asyncVars, errVars, authHeader, jwtErr>>

----------------------------------------------------------------------------
Init ==
    /\ \E cfg \in Configs :
          /\ SentryOn = cfg.on
          /\ tracesSampleRate = cfg.rate
          /\ skipTracesEndpoints = cfg.skip
          /\ beanSentryOn = cfg.on
    /\ reconfigs = 0
    /\ ctxFree = Ctxs
    /\ ctxStore = [c \in Ctxs |-> FALSE]
    /\ atCall = [i \in Invs |-> [on |-> FALSE, rate |-> 0]]
    /\ entry = [i \in Invs |-> None]
    /\ poolArg = [i \in Invs |-> NoPool]
    /\ callerSt = [i \in Invs |-> "idle"]
    /\ mode = [i \in Invs |-> None]
    /\ ec = [i \in Invs |-> NoCtx]
    /\ path = [i \in Invs |-> ""]
    /\ rpc = [i \in Invs |-> "none"]
    /\ defers = [i \in Invs |-> <<>>]
    /\ panicking = [i \in Invs |-> None]
    /\ taskRuns = [i \in Invs |-> 0]
    /\ runs = [i \in Invs |-> 0]
    /\ wOutcome = [i \in Invs |-> None]
    /\ trace = [i \in Invs |-> <<>>]
    /\ errorHandlerFuncs = <<>>
    /\ registered = <<>>
    /\ serving = FALSE
    /\ lastReq = NoReq
    /\ hlog = <<>>
    /\ authHeader = <<>>
    /\ jwtErr = "idle"
    /\ jbIn = [min |-> 0, max |-> 0, attempt |-> 0, jitter |-> 0]
    /\ jbOut = [kind |-> "none", r |-> 0]

Next ==
    \E i \in Invs :
        \/ Execute(i)
        \/ ExecuteWithContext(i)
        \/ RunTask(i)
        \/ WReturn(i)
        \/ WPanic(i)
        \/ RunDeferred(i)

Spec == Init /\ [][Next]_vars

\* Goroutines and pool workers are scheduled fairly, and fn ends (by
\* returning or by panicking).
Fairness ==
    \A i \in Invs :
        /\ WF_vars(RunTask(i))
        /\ WF_vars(WReturn(i) \/ WPanic(i))
        /\ WF_vars(RunDeferred(i))

FairSpec == Spec /\ Fairness

\* The program with a configuration that changes while it runs.
ReconfNext == Next \/ Reconfigure
ReconfSpec == Init /\ [][ReconfNext]_vars

\* The program with units of work that report errors to the sink.
CaptureNext == Next \/ \E i \in Invs : WCapture(i)
CaptureSpec == Init /\ [][CaptureNext]_vars

\* The framework registering handler functions, serving, and handling the
\* errors of requests.
ErrNext ==
    \/ \E h \in UserHandlers : UseErrorHandlerFuncs(h)
    \/ ServeAt
    \/ HTTPError
ErrSpec == Init /\ [][ErrNext]_vars

\* Requests that are authenticated by their bearer token.
JwtNext == ReceiveRequest \/ Authenticate
JwtSpec == Init /\ [][JwtNext]_vars

\* Callers of JitterBackoff.
BackoffNext == CallJitterBackoff
BackoffSpec == Init /\ [][BackoffNext]_vars

TypeOK ==
    /\ SentryOn \in BOOLEAN
    /\ ctxFree \subseteq Ctxs
    /\ \A i \in Invs :
          /\ callerSt[i] \in {"idle", "returned", "faulted"}
          /\ rpc[i] \in {"none", "spawned", "queued", "w", "unwind", "done",
                         "escaped"}
          /\ runs[i] \in 0..1

----------------------------------------------------------------------------
\* Reading the traces

Has(i, e, a) == \E k \in DOMAIN trace[i] : trace[i][k].ev = e /\ trace[i][k].arg = a
Where(i, e) == {k \in DOMAIN trace[i] : trace[i][k].ev = e}
Count(i, e) == Cardinality(Where(i, e))

Called(i) == callerSt[i] # "idle"

\* The invocation is over: the entry point has returned and the task has
\* ended or was never accepted.
Terminal(i) ==
    /\ callerSt[i] = "returned"
    /\ rpc[i] \in {"done", "escaped"} \/ mode[i] = "submitFailed"

\* The poolName argument is given and does not resolve to a pool.
LookupFailed(i) ==
    /\ poolArg[i] # NoPool
    /\ GetPool(poolArg[i]).err \/ ~GetPool(poolArg[i]).pool

\* The closure of ExecuteWithContext panics before it calls fn: an invalid
\* skip pattern is reached before a matching one.
EnrichFaults(i) ==
    /\ entry[i] = "ExecuteWithContext"
    /\ Enrich(ec[i], path[i]).pv # None

\* pool.Submit rejected the task: its error was raised and logged.
SubmitRejected(i) == Has(i, "LogError", SubmitErr)

\* The task is never started, or ends before fn is called.
Dropped(i) == SubmitRejected(i) \/ EnrichFaults(i)

----------------------------------------------------------------------------
C2_AsClaimed ==
    \A i \in Invs :
        /\ rpc[i] = "w" =>
              \E k \in DOMAIN defers[i] :
                  defers[i][k] \in {"recoverPanic(nil)", "recoverPanic(ec)"}
        /\ wOutcome[i] = "panicked" /\ rpc[i] \in {"done", "escaped"} =>
              /\ rpc[i] = "done"
              /\ \E k \in Where(i, "LogError") :
                    trace[i][k].arg = "boom" /\ trace[i][k].th = "runner"

\* C3: Execute without a pool name, fn panics: the panic never leaves the
\* goroutine, fn is not invoked again, and once the goroutine has ended the
\* panic value has been logged exactly once and no panic is in flight.
C3_UnpooledPanicRecovered ==
    \A i \in Invs :
        entry[i] = "Execute" /\ poolArg[i] = NoPool
        /\ wOutcome[i] = "panicked" =>
            /\ rpc[i] \in {"unwind", "done"}
            /\ runs[i] = 1
            /\ taskRuns[i] = 1
            /\ rpc[i] = "done" =>
                  /\ panicking[i] = None
                  /\ Count(i, "LogError") = 1
                  /\ Has(i, "LogError", "boom")

C3_Witness ==
    \E i \in Invs :
        /\ entry[i] = "Execute" /\ poolArg[i] = NoPool
        /\ wOutcome[i] = "panicked" /\ rpc[i] = "done"
        /\ Has(i, "LogError", "boom")

\* C4: every call of an entry point has returned normally: no panic is in
\* flight in the calling thread when the entry point ends, whatever the pool
\* lookup, the submission and fn do.
C4_CallerReturnsNormally ==
    \A i \in Invs : Called(i) => callerSt[i] = "returned"

\* The two entry points have returned, one after a failed submission and one
\* whose unit of work panicked.
C4_Witness ==
    \E i, j \in Invs :
        /\ callerSt[i] = "returned" /\ mode[i] = "submitFailed"
        /\ callerSt[j] = "returned" /\ wOutcome[j] = "panicked"
        /\ entry[i] # entry[j]

\* C5: the pool name is given and the lookup fails: one warning naming
\* that pool is logged, the task goes to a new goroutine that defers
\* recoverPanic(nil), and it is started exactly once (so is fn, when it is
\* the task Execute was given).
C5_FallbackRunsOnce ==
    \A i \in Invs :
        /\ [](Called(i) /\ LookupFailed(i) =>
                /\ Count(i, "Warnf") = 1
                /\ Has(i, "Warnf", poolArg[i])
                /\ mode[i] = "goroutine"
                /\ Count(i, "Submit") = 0
                /\ taskRuns[i] <= 1
                /\ rpc[i] = "w" => defers[i][1] = "recoverPanic(nil)"
                /\ rpc[i] \in {"spawned", "w", "unwind", "done"})
        /\ [](Called(i) /\ LookupFailed(i) =>
                <>(/\ rpc[i] = "done"
                   /\ taskRuns[i] = 1
                   /\ entry[i] = "Execute" => runs[i] = 1))

C5_Witness ==
    \E i \in Invs :
        /\ poolArg[i] = "ghost_pool"
        /\ Has(i, "Warnf", "ghost_pool")
        /\ rpc[i] = "done" /\ runs[i] = 1

\* The operations of the error-reporting sink.
SinkEvents ==
    {"GetHubFromContext", "HubClone", "ScopeSetRequest", "SetTag",
     "SetHubOnContext", "Set", "StartSpan", "SampledFalse", "Finish",
     "HubRecover"}
SinkOps(t) == Cardinality({k \in DOMAIN t : t[k].ev \in SinkEvents})

\* The operations recoverPanic performs when it recovers a panic.
IsRecoverOp(e) ==
    \/ e.ev \in {"SetTag", "HubRecover", "LogError"}
    \/ e.ev \in {"HubClone", "ScopeSetRequest"} /\ e.arg = "recoverPanic"

\* C6 as claimed: an ExecuteWithContext invocation that is over has acquired
\* one context and released it once.
C6_AsClaimed ==
    \A i \in Invs :
        entry[i] = "ExecuteWithContext" /\ Terminal(i) =>
            /\ Count(i, "AcquireContext") = 1
            /\ Count(i, "ReleaseContext") = 1

\* C7: ExecuteWithContext, fn panics: the context is not released while
\* recoverPanic(ec) is pending, every operation of recoverPanic precedes the
\* release, and the release comes only after the panic value was logged
\* with the request of the context read (when reporting is on).
C7_RecoverBeforeRelease ==
    \A i \in Invs :
        entry[i] = "ExecuteWithContext" /\ wOutcome[i] = "panicked" =>
            /\ (\E k \in DOMAIN defers[i] : defers[i][k] = "recoverPanic(ec)")
                  => Count(i, "ReleaseContext") = 0
            /\ \A r \in Where(i, "ReleaseContext") :
                  /\ \A k \in DOMAIN trace[i] :
                        IsRecoverOp(trace[i][k]) => k < r
                  /\ \E k \in Where(i, "LogError") :
                        trace[i][k].arg = "boom" /\ k < r
                  /\ SentryOn =>
                        \E k \in Where(i, "ScopeSetRequest") :
                            /\ trace[i][k].arg = "recoverPanic"
                            /\ trace[i][k].ctx = ec[i]
                            /\ k < r
                  /\ ec[i] \in ctxFree \/ \E j \in Invs \ {i} : ec[j] = ec[i]

C7_Witness ==
    \E i \in Invs :
        /\ entry[i] = "ExecuteWithContext" /\ wOutcome[i] = "panicked"
        /\ SentryOn
        /\ Count(i, "ReleaseContext") = 1
        /\ Has(i, "HubRecover", "boom")

\* C8 as claimed: nothing observable follows the release of the context; in
\* particular the span is finished before it.
C8_AsClaimed ==
    \A i \in Invs :
        \A r \in Where(i, "ReleaseContext") : r = Len(trace[i])

\* C9: the pool is found and Submit returns an error: the error is raised
\* and recovered in the calling thread by recoverPanic: logged once,
\* captured by the sink exactly when reporting is on; no fault reaches the
\* caller, the entry point returns, and nothing is left to run.
C9_SubmitErrorRecovered ==
    \A i \in Invs :
        mode[i] = "submitFailed" =>
            /\ callerSt[i] = "returned"
            /\ Count(i, "LogError") = 1
            /\ \E k \in Where(i, "LogError") :
                  /\ trace[i][k].arg = SubmitErr
                  /\ trace[i][k].th = "caller"
                  /\ k = Len(trace[i])
            /\ Has(i, "HubRecover", SubmitErr) <=> SentryOn
            /\ Has(i, "SetTag", "goroutine=true") <=> SentryOn
            /\ rpc[i] = "none" /\ panicking[i] = None

C9_Witness ==
    \E i, j \in Invs :
        /\ mode[i] = "submitFailed" /\ entry[i] = "Execute"
        /\ mode[j] = "submitFailed" /\ entry[j] = "ExecuteWithContext"
        /\ callerSt[i] = "returned" /\ callerSt[j] = "returned"
        /\ SentryOn /\ Has(i, "HubRecover", SubmitErr)

\* C10: while the reporting flag is off no step performs an operation of
\* the sink, so with the flag off from the start no trace holds one; a
\* panic that is recovered is still logged.
C10_NoSinkWhenOff ==
    [][~SentryOn =>
          \A i \in Invs : SinkOps(trace'[i]) = SinkOps(trace[i])]_vars

C10_Witness ==
    \E i, j \in Invs :
        /\ ~SentryOn
        /\ entry[i] = "ExecuteWithContext" /\ rpc[i] = "done"
        /\ wOutcome[i] = "panicked" /\ Has(i, "LogError", "boom")
        /\ entry[j] = "Execute" /\ mode[j] = "submitFailed"
        /\ SinkOps(trace[i]) = 0 /\ SinkOps(trace[j]) = 0

----------------------------------------------------------------------------
\* The closure of ExecuteWithContext has been started.
ClosureRan(i) == entry[i] = "ExecuteWithContext" /\ taskRuns[i] = 1

\* The sampling rate as the closure tests it.
Sampling == FloatInRange(tracesSampleRate, 0, 10) > 0

\* The patterns MustCompile was called with, in order.
Compiled(i) ==
    LET RECURSIVE F(_)
        F(k) == IF k > Len(trace[i]) THEN <<>>
                ELSE (IF trace[i][k].ev = "MustCompile"
                      THEN <<trace[i][k].arg>> ELSE <<>>) \o F(k + 1)
    IN  F(1)

\* C11: reporting on and the sampling rate clamps to 0: the closure starts
\* no span, binds a hub to the detached context before fn is called, and a
\* panic of fn is captured by the sink.
C11_NoSpanAtRateZero ==
    \A i \in Invs :
        SentryOn /\ ~Sampling /\ ClosureRan(i) =>
            /\ Count(i, "StartSpan") = 0
            /\ Count(i, "Finish") = 0
            /\ \E k \in Where(i, "Set"), f \in Where(i, "fn") :
                  /\ trace[i][k].arg = "sentry"
                  /\ trace[i][k].ctx = ec[i]
                  /\ k < f
            /\ wOutcome[i] = "panicked" /\ rpc[i] = "done" =>
                  Has(i, "HubRecover", "boom")

C11_Witness ==
    \E i \in Invs :
        /\ SentryOn /\ tracesSampleRate # 0 /\ ~Sampling /\ ClosureRan(i)
        /\ wOutcome[i] = "panicked" /\ rpc[i] = "done"
        /\ Has(i, "HubRecover", "boom")
        /\ Has(i, "Set", "sentry")

\* C12 as claimed: reporting on and sampling: the closure starts exactly one
\* span, and the span is marked not-sampled if and only if some configured
\* skip pattern matches the request path.
C12_AsClaimed ==
    \A i \in Invs :
        SentryOn /\ Sampling /\ ClosureRan(i) =>
            /\ Count(i, "StartSpan") = 1
            /\ Count(i, "SampledFalse") > 0 <=>
                  \E k \in DOMAIN skipTracesEndpoints :
                      /\ Compiles(skipTracesEndpoints[k])
                      /\ MatchString(skipTracesEndpoints[k], path[i])

\* C12, amended: reporting on and sampling: the closure starts exactly one
\* span; the patterns are compiled in order up to and including the first
\* one that matches the path or does not compile; the span is marked
\* not-sampled (once) if and only if a matching pattern is reached, that is,
\* no pattern before the first match fails to compile; an invalid pattern
\* reached first panics the closure before fn is called.
C12_FirstMatchOrPanic ==
    \A i \in Invs :
        SentryOn /\ Sampling /\ ClosureRan(i) =>
            LET list == skipTracesEndpoints
                Stop(k) == ~Compiles(list[k]) \/ MatchString(list[k], path[i])
                stops == {k \in DOMAIN list : Stop(k)}
                first == IF stops = {} THEN Len(list)
                         ELSE CHOOSE k \in stops : \A j \in stops : k <= j
                hit == stops # {} /\ Compiles(list[first])
            IN  /\ Count(i, "StartSpan") = 1
                /\ Compiled(i) = SubSeq(list, 1, first)
                /\ Count(i, "SampledFalse") = IF hit THEN 1 ELSE 0
                /\ hit => Has(i, "SampledFalse", list[first])
                /\ stops # {} /\ ~hit => runs[i] = 0

\* A request to /ping with "^/ping$" first in the list: the span is started
\* and marked not-sampled, and the invalid pattern after it is not compiled.
C12_Witness ==
    \E i \in Invs :
        /\ SentryOn /\ Sampling /\ ClosureRan(i)
        /\ path[i] = "/ping"
        /\ \E k \in DOMAIN skipTracesEndpoints : ~Compiles(skipTracesEndpoints[k])
        /\ Count(i, "StartSpan") = 1
        /\ Has(i, "SampledFalse", "^/ping$")
        /\ Compiled(i) = <<"^/ping$">>
        /\ rpc[i] = "done"

\* C13 as claimed: when the task has ended, every span it started has been
\* finished exactly once.
C13_AsClaimed ==
    \A i \in Invs :
        rpc[i] \in {"done", "escaped"} => Count(i, "Finish") = Count(i, "StartSpan")

----------------------------------------------------------------------------
\* The number of operations e in a trace t.
CntIn(t, e) == Cardinality({k \in DOMAIN t : t[k].ev = e})

\* The operations of the closure's enrichment.
EnrichEvents ==
    {"GetHubFromContext", "SetHubOnContext", "Set", "StartSpan",
     "MustCompile", "SampledFalse", "SetRequest"}

\* C14: the step in which ExecuteWithContext is called performs, on the
\* context and on the sink's enrichment, only the acquire and the reset of
\* the context, in the calling thread; the enrichment is performed in the
\* step in which the scheduled closure starts, by the thread that runs it,
\* and follows the reporting flag and the sampling rate as they are in that
\* step.
C14_EnrichAtExecution ==
    [][\A i \in Invs :
          /\ callerSt[i] = "idle" /\ callerSt'[i] # "idle"
             /\ entry'[i] = "ExecuteWithContext" =>
                /\ \A k \in DOMAIN trace'[i] :
                      /\ trace'[i][k].th = "caller"
                      /\ trace'[i][k].ev \notin EnrichEvents
                      /\ trace'[i][k].arg # "ExecuteWithContext"
                      /\ trace'[i][k].ctx # NoCtx =>
                            trace'[i][k].ev \in {"AcquireContext", "Reset"}
                /\ trace'[i][1].ev = "AcquireContext"
                /\ trace'[i][2].ev = "Reset"
          /\ entry[i] = "ExecuteWithContext" /\ taskRuns'[i] # taskRuns[i] =>
                /\ CntIn(trace'[i], "Set") = IF SentryOn THEN 1 ELSE 0
                /\ CntIn(trace'[i], "StartSpan") =
                      IF SentryOn /\ Sampling THEN 1 ELSE 0
                /\ \A k \in DOMAIN trace'[i] :
                      k > Len(trace[i]) => trace'[i][k].th = "runner"]_vars

\* The flag was off when ExecuteWithContext was called and on when the
\* closure ran; and the rate clamped to 0 at the call and not at the run.
C14_Witness ==
    \E i \in Invs :
        /\ ClosureRan(i)
        /\ ~atCall[i].on
        /\ FloatInRange(atCall[i].rate, 0, 10) > 0
        /\ reconfigs = 1
        /\ Has(i, "Set", "sentry")
        /\ Count(i, "StartSpan") = 0

----------------------------------------------------------------------------
\* The capture at position k of trace i was made on a freshly cloned hub
\* carrying the background-execution tag; req: the hub carries a request.
TaggedClone(i, k, req) ==
    /\ k > 2
    /\ trace[i][k - 1].ev = "SetTag" /\ trace[i][k - 1].arg = "goroutine=true"
    /\ IF req
       THEN /\ k > 3
            /\ trace[i][k - 2].ev = "ScopeSetRequest"
            /\ trace[i][k - 2].ctx = ec[i]
            /\ trace[i][k - 3].ev = "HubClone"
            /\ trace[i][k - 3].arg = "recoverPanic"
       ELSE /\ trace[i][k - 2].ev = "HubClone"
            /\ trace[i][k - 2].arg = "recoverPanic"

\* C15 as claimed: with reporting on, every fault that is recovered is
\* logged and captured on a freshly cloned, tagged hub, which carries the
\* request of the detached context in an ExecuteWithContext invocation and
\* no request in an Execute invocation.
C15_AsClaimed ==
    \A i \in Invs :
        SentryOn =>
            /\ \A k \in Where(i, "LogError") :
                  k > 1 /\ trace[i][k - 1].ev = "HubRecover"
                  /\ trace[i][k - 1].arg = trace[i][k].arg
            /\ \A k \in Where(i, "HubRecover") :
                  TaggedClone(i, k, entry[i] = "ExecuteWithContext")

----------------------------------------------------------------------------
\* Invocation i has acquired a detached context and not released it.
InFlight(i) ==
    /\ entry[i] = "ExecuteWithContext"
    /\ Called(i)
    /\ Count(i, "ReleaseContext") = 0

\* C16: whatever the interleaving of the ExecuteWithContext invocations, a
\* detached context is held by at most one invocation between its acquire
\* and its release (and is not in the pool meanwhile), and no invocation
\* uses its detached context after it released it.
C16_ContextNotShared ==
    /\ \A i, j \in Invs :
          i # j /\ InFlight(i) /\ InFlight(j) => ec[i] # ec[j]
    /\ \A i \in Invs : InFlight(i) => ec[i] \notin ctxFree
    /\ \A i \in Invs :
          \A r \in Where(i, "ReleaseContext") :
              \A k \in DOMAIN trace[i] :
                  k > r => trace[i][k].ctx # ec[i]

\* Two invocations run fn at the same time, each on its own context.
C16_Witness ==
    \E i, j \in Invs :
        /\ i # j
        /\ InFlight(i) /\ InFlight(j)
        /\ rpc[i] = "w" /\ rpc[j] = "w"

----------------------------------------------------------------------------
\* C17: with reporting on, when ExecuteWithContext's closure invokes fn the
\* detached context holds a hub under SentryHubContextKey, bound by the
\* closure before the call (a clone of the current hub: the request context
\* is a fresh one and holds none), so a SentryCaptureException(ec, err) made
\* by fn captures on it and never captures nothing.
C17_HubBoundBeforeW ==
    \A i \in Invs :
        SentryOn /\ entry[i] = "ExecuteWithContext" =>
            /\ rpc[i] = "w" =>
                  /\ ctxStore[ec[i]]
                  /\ Count(i, "Set") = 1
                  /\ \E k \in Where(i, "Set") :
                        /\ trace[i][k].ctx = ec[i]
                        /\ trace[i][k].arg = "sentry"
                        /\ k > 1
                        /\ \E h \in 1..(k - 1) : trace[i][h].ev = "HubClone"
            /\ \A k \in Where(i, "SentryCaptureException") :
                  /\ trace[i][k].arg = "captured"
                  /\ \E s \in Where(i, "Set") : s < k

\* fn has reported an error through its context and the hub captured it.
C17_Witness ==
    \E i \in Invs :
        /\ SentryOn
        /\ entry[i] = "ExecuteWithContext"
        /\ Has(i, "SentryCaptureException", "captured")

----------------------------------------------------------------------------
\* C18 as claimed: once the task of an invocation whose fn panicked has
\* ended, the panic has been recovered (none is in flight or has left the
\* task), logged exactly once and, with reporting on, captured exactly once
\* (never with reporting off); where ExecuteWithContext's closure runs in a
\* goroutine the recovery is that of recoverPanic(ec), in the closure.
C18_AsClaimed ==
    \A i \in Invs :
        wOutcome[i] = "panicked" /\ rpc[i] \in {"done", "escaped"} =>
            /\ rpc[i] = "done"
            /\ panicking[i] = None
            /\ Count(i, "LogError") = 1
            /\ Count(i, "HubRecover") = IF SentryOn THEN 1 ELSE 0
            /\ entry[i] = "ExecuteWithContext" /\ SentryOn =>
                  \A k \in Where(i, "HubRecover") : TaggedClone(i, k, TRUE)

----------------------------------------------------------------------------
\* C19 as claimed: fn is invoked at most once, and an invocation that is
\* over has invoked it zero times exactly when pool.Submit returned an
\* error.
C19_AsClaimed ==
    \A i \in Invs :
        /\ runs[i] <= 1
        /\ Terminal(i) => (runs[i] = 0 <=> SubmitRejected(i))

\* C19, amended: fn is invoked at most once; when pool.Submit returned an
\* error the task is never started, neither by a second Submit nor on a
\* goroutine; and an invocation that is over has invoked fn zero times
\* exactly when pool.Submit returned an error or the closure of
\* ExecuteWithContext panicked before its call of fn.
C19_AtMostOnce ==
    \A i \in Invs :
        /\ runs[i] <= 1
        /\ Count(i, "fn") = runs[i]
        /\ SubmitRejected(i) =>
              /\ runs[i] = 0 /\ taskRuns[i] = 0
              /\ Count(i, "Submit") = 1 /\ Count(i, "go") = 0
        /\ Terminal(i) =>
              (runs[i] = 0 <=> SubmitRejected(i) \/ EnrichFaults(i))

\* One invocation is over without fn because Submit rejected the task,
\* another because the closure panicked while compiling a skip pattern.
C19_Witness ==
    \E i, j \in Invs :
        /\ Terminal(i) /\ runs[i] = 0 /\ SubmitRejected(i)
        /\ Terminal(j) /\ runs[j] = 0 /\ EnrichFaults(j) /\ ~SubmitRejected(j)
        /\ taskRuns[j] = 1

----------------------------------------------------------------------------
\* The calls of handler functions in a log, in order.
IsHandle(x) == x.ev = "handle"
Calls(log) == SelectSeq(log, IsHandle)

\* Number of handler functions the loop reaches with outcomes outs: up to
\* the first that reports handled, or all of them.
Reached(outs) ==
    IF \E k \in DOMAIN outs : outs[k].handled
    THEN CHOOSE k \in DOMAIN outs :
            /\ outs[k].handled
            /\ \A j \in 1..(k - 1) : ~outs[j].handled
    ELSE Len(outs)

\* C20: the error handler calls no handler function when the response is
\* committed; otherwise it calls the registered functions in registration
\* order up to the first that reports handled, and every error a called
\* function returns is captured by Sentry when SentryOn and written to the
\* context logger otherwise, right after the call; and once ServeAt has run
\* the functions are those the application registered, in order, followed
\* by the framework's.
C20_HandlersInOrder ==
    /\ serving =>
          errorHandlerFuncs = registered \o <<DefaultErrorHanderFunc>>
    /\ lastReq.err # None /\ lastReq.committed => hlog = <<>>
    /\ lastReq.err # None /\ ~lastReq.committed =>
          LET n == Reached(lastReq.outs)
              calls == Calls(hlog)
          IN  /\ Len(calls) = n
              /\ \A k \in 1..n :
                    /\ calls[k].fn = errorHandlerFuncs[k]
                    /\ calls[k].err = lastReq.err
              /\ Len(hlog) - n
                    = Cardinality({k \in 1..n : lastReq.outs[k].err # None})
              /\ \A p \in DOMAIN hlog :
                    ~IsHandle(hlog[p]) =>
                       LET k == Len(Calls(SubSeq(hlog, 1, p)))
                       IN  /\ p > 1 /\ IsHandle(hlog[p - 1])
                           /\ hlog[p].err = lastReq.outs[k].err
                           /\ hlog[p].err # None
                           /\ IF beanSentryOn
                              THEN /\ hlog[p].ev = "SentryCaptureException"
                                   /\ hlog[p].fn = "captured"
                              ELSE hlog[p].ev = "Logger.Error"

\* With Sentry on and two functions registered before ServeAt, the first
\* returned an error without handling, the second handled: two calls, one
\* capture, and the framework's function was not called.
C20_Witness ==
    /\ beanSentryOn
    /\ Len(registered) = 2
    /\ lastReq.err # None /\ ~lastReq.committed
    /\ ~lastReq.outs[1].handled /\ lastReq.outs[1].err # None
    /\ lastReq.outs[2].handled
    /\ Len(Calls(hlog)) = 2
    /\ \E p \in DOMAIN hlog : hlog[p].ev = "SentryCaptureException"

----------------------------------------------------------------------------
\* C21 as claimed: ExtractUserInfoFromJWT returns nil exactly when the
\* bearer token parses and is valid, "token is expired" when the only
\* validation errors are that the token is expired or not valid yet, and
\* "invalid user token" when the token is malformed, its signature is bad
\* or the header is missing.
C21_AsClaimed ==
    jwtErr \notin {"idle", "pending"} =>
        LET r == ParseWithClaims(ExtractJWTFromHeader(authHeader))
        IN  /\ jwtErr = None <=> r.valid
            /\ r.errs # {} /\ r.errs \subseteq {"ValidationErrorExpired",
                                                "ValidationErrorNotValidYet"}
                  => jwtErr = "token is expired"
            /\ r.errs \cap {"ValidationErrorMalformed",
                            "ValidationErrorSignatureInvalid"} # {}
                  => jwtErr = "invalid user token"

----------------------------------------------------------------------------
\* JitterBackoff has been called with min <= max.
Backoff(lo) ==
    /\ jbOut.kind # "none"
    /\ lo <= jbIn.min /\ jbIn.min <= jbIn.max

\* min(max, min * 2^attempt), in exact arithmetic.
CapLevel == MathMin(jbIn.max, jbIn.min * Exp2(jbIn.attempt))

\* C22 as claimed: for 2 <= min <= max the result r satisfies
\* min <= r <= max, and t/2 <= r < t with t = min(max, min * 2^attempt)
\* whenever t/2 >= min (t/2 truncated, as the centre is).
C22_AsClaimed ==
    Backoff(2) =>
        /\ jbOut.kind = "value"
        /\ jbIn.min <= jbOut.r /\ jbOut.r <= jbIn.max
        /\ CapLevel \div 2 >= jbIn.min =>
              CapLevel \div 2 <= jbOut.r /\ jbOut.r < CapLevel

\* C23 as claimed: for 0 <= min <= max JitterBackoff returns a duration and
\* does not fault, also where the centre of the jitter truncates to 0.
C23_AsClaimed ==
    Backoff(0) => jbOut.kind = "value"

====
